---- MODULE Spec2Model ----
(***************************************************************************)
(* A model of the TCP server of package mytcp (tcp_server.go) and of the   *)
(* message router of the server's main package.                            *)
(*                                                                         *)
(* One accept goroutine (LoopAccept) and, per accepted connection, three   *)
(* goroutines: the Reader (LoopRead), the Sender (ConsumeInput) and the    *)
(* Dispatcher (ConsumeOutput).  The channels input and output are          *)
(* unbuffered, so a send is a rendezvous with the receiving goroutine.     *)
(* The peers and the operating-system signal are the environment.          *)
(*                                                                         *)
(* An action runs one goroutine from one blocking operation (Accept, Lock, *)
(* Read, a select without default, a channel send) to the next.  Send and  *)
(* SendById have no caller in the server; their one statement,             *)
(* "conn.input <- v", is the statement Broadcast executes per connection.  *)
(***************************************************************************)
EXTENDS Integers, Sequences, FiniteSets, TLC

\* ------------------------------------------------------------- bounds
\* Peers that connect during a run.
MaxConns == 2
\* Frames the peers send during a run, over all connections.
MaxFrames == 2

\* ---------------------------------------------------------- constants
\* tcpServer.stop: 0 while running, 2 once Shutdown has run.
StopRunning == 0
StopShutdown == 2
\* The action codes of the route table, and one that is not registered.
DefaultAct == 0
ShutdownAct == 100
OtherAct == ShutdownAct + 1

Sockets == 1..MaxConns
NoSocket == MaxConns + 1

Acts == {DefaultAct, ShutdownAct, OtherAct}
\* A frame as the router sees it: its action code, and whether its payload
\* decodes into the request prototype of route 100 (ShutdownReq).
\* A payload that does not decode is sent only on route 100, the one route that
\* decodes (the others never look at the payload).
Frames == {f \in [act : Acts, ok : BOOLEAN] : f.ok \/ f.act = ShutdownAct}
NoFrame == [act |-> DefaultAct - 1, ok |-> FALSE]

\* A payload queued for a socket: the notice handleShutdown built on
\* connection k for the n-th frame dispatched there.
NoPayload == <<0, 0>>

\* Who holds tcpServer.lock.
Free == <<"free", 0>>
ByAcceptor == <<"acceptor", 0>>
BySender(k) == <<"sender", k>>

VARIABLES
    stop,          \* tcpServer.stop
    lock,          \* tcpServer.lock: its holder, or Free
    lclosed,       \* number of listener.Close() calls
    lastId,        \* tcpServer.lastId
    conns,         \* tcpServer.conns: set of <<id, socket>>
    apc,           \* LoopAccept: "accept", "lock", "save", "done"
    nAccepted,     \* sockets returned by Accept so far; the newest is the current one
    idLog,         \* the ids getConnAutoIncId returned, in order
    connId,        \* TcpConn.id of the socket's TcpConn, 0 when it has none
    peer,          \* the peer's end: "none", "open", "gone"
    closes,        \* number of conn.Close() calls on the socket
    nFrames,       \* frames read so far
    rpc,           \* LoopRead: "none", "read" (in conn.Read), "push", "done"
    rbuf,          \* the frame LoopRead is sending on output
    rerr,          \* the error conn.Read returned: "none", "EOF", "OpError"
    rlog,          \* the frames conn.Read returned, in order
    waitConn,      \* number of close(conn.waitConn) calls
    cbLog,         \* the closeCallback invocations: sequence of <<isServer, isClient>>
    spc,           \* ConsumeInput: "none", "select", "lock", "done"
    smsg,          \* the payload ConsumeInput took from input
    qlog,          \* the payloads taken from input, in the order they were sent on it
    wlog,          \* the payloads written to the socket, in order
    dpc,           \* ConsumeOutput: "none", "select", "bcast", "done"
    dlog,          \* per frame dispatched: the frame and the handlers invoked for it
    bcPending,     \* Broadcast: the sockets Range has still to visit
    bcTarget,      \* Broadcast: the socket whose input it is sending on
    bcMsg,         \* Broadcast: the payload
    sigpc,         \* the signal goroutine of main: "wait", "done"
    shutWaiting,   \* Shutdown calls made (or armed by time.AfterFunc) and not yet run
    noops,         \* Shutdown calls that found stop set and returned
    transitions,   \* Shutdown calls that found stop = 0 and set it
    atShut         \* the sockets registered, open and not closing at the transition

vars == <<stop, lock, lclosed, lastId, conns, apc, nAccepted, idLog, connId,
          peer, closes, nFrames, rpc, rbuf, rerr, rlog, waitConn, cbLog,
          spc, smsg, qlog, wlog, dpc, dlog, bcPending, bcTarget, bcMsg,
          sigpc, shutWaiting,
          noops, transitions, atShut>>

serverVars == <<stop, lock, lclosed, lastId, conns>>
acceptVars == <<apc, nAccepted, idLog, connId>>
readVars == <<nFrames, rpc, rbuf, rerr, rlog, waitConn, cbLog>>
sendVars == <<spc, smsg, qlog, wlog>>
dispVars == <<dpc, dlog>>
bcVars == <<bcPending, bcTarget, bcMsg>>
shutVars == <<sigpc, shutWaiting, noops, transitions, atShut>>

\* ------------------------------------------------------------ helpers
\* The sockets stored in the registry.
Registered == {p[2] : p \in conns}

\* LoopRead's select, once the goroutine starts and after each frame it has
\* handed over: return when waitConn is closed, otherwise (the case
\* "<-conn.output" is never ready, LoopRead being the only sender on output)
\* the default, which blocks in conn.Read.
LoopReadSelect(k) == IF waitConn[k] > 0 THEN "done" ELSE "read"

\* NewTcpServer, and main up to wg.Wait(): the listener is bound, LoopAccept runs.
Init ==
    /\ stop = StopRunning
    /\ lock = Free
    /\ lclosed = 0
    /\ lastId = 0
    /\ conns = {}
    /\ apc = "accept"
    /\ nAccepted = 0
    /\ idLog = <<>>
    /\ connId = [k \in Sockets |-> 0]
    /\ peer = [k \in Sockets |-> "none"]
    /\ closes = [k \in Sockets |-> 0]
    /\ nFrames = 0
    /\ rpc = [k \in Sockets |-> "none"]
    /\ rbuf = [k \in Sockets |-> NoFrame]
    /\ rerr = [k \in Sockets |-> "none"]
    /\ rlog = [k \in Sockets |-> <<>>]
    /\ waitConn = [k \in Sockets |-> 0]
    /\ cbLog = [k \in Sockets |-> <<>>]
    /\ spc = [k \in Sockets |-> "none"]
    /\ smsg = [k \in Sockets |-> NoPayload]
    /\ qlog = [k \in Sockets |-> <<>>]
    /\ wlog = [k \in Sockets |-> <<>>]
    /\ dpc = [k \in Sockets |-> "none"]
    /\ dlog = [k \in Sockets |-> <<>>]
    /\ bcPending = [k \in Sockets |-> {}]
    /\ bcTarget = [k \in Sockets |-> NoSocket]
    /\ bcMsg = [k \in Sockets |-> NoPayload]
    /\ sigpc = "wait"
    /\ shutWaiting = 0
    /\ noops = 0
    /\ transitions = 0
    /\ atShut = {}

\* ------------------------------------------------------ the acceptor
\* getConnAutoIncId without the increment.
getConnAutoIncIdStale(val) == val

\* getConnAutoIncId: the value the compare-and-swap stores and returns. Only
\* LoopAccept calls it, under the lock, so the swap succeeds at once. lastId is
\* a uint32: it wraps after 2^32 - 1 connections, far beyond MaxConns (and
\* beyond the integers of the model checker), so the sum is not reduced here.
getConnAutoIncId(val) == val + 1

\* saveConn: sync.Map.Store replaces the entry of the same key.
saveConn(id, k) == {p \in conns : p[1] # id} \cup {<<id, k>>}

\* LoopAccept, l.listener.Accept() returns a connection: a peer has connected.
LoopAcceptAccept ==
    /\ apc = "accept"
    /\ lclosed = 0
    /\ nAccepted < MaxConns
    /\ nAccepted' = nAccepted + 1
    /\ peer' = [peer EXCEPT ![nAccepted + 1] = "open"]
    /\ apc' = "lock"
    /\ UNCHANGED <<serverVars, idLog, connId, closes, readVars, sendVars,
                   dispVars, bcVars, shutVars>>

\* LoopAccept, l.listener.Accept() fails: the listener has been closed. The
\* goroutine returns, with whatever it holds.
LoopAcceptError ==
    /\ apc = "accept"
    /\ lclosed > 0
    /\ apc' = "done"
    /\ UNCHANGED <<serverVars, nAccepted, idLog, connId, peer, closes, readVars,
                   sendVars, dispVars, bcVars, shutVars>>

\* LoopAccept from l.lock.Lock() on: "if l.stop != 0 { continue }", which goes
\* back to Accept without Unlock; otherwise f(accept), Start's closure, up to
\* the launch of the three goroutines. The lock stays held either way.
LoopAccept ==
    /\ apc = "lock"
    /\ lock = Free
    /\ lock' = ByAcceptor
    /\ IF stop # StopRunning
       THEN /\ apc' = "accept"
            /\ UNCHANGED <<lastId, idLog, connId, rpc, spc, dpc>>
       ELSE LET newId == getConnAutoIncId(lastId)
                k == nAccepted
            IN /\ lastId' = newId
               /\ idLog' = Append(idLog, newId)
               /\ connId' = [connId EXCEPT ![k] = newId]
               /\ rpc' = [rpc EXCEPT ![k] = LoopReadSelect(k)]
               /\ spc' = [spc EXCEPT ![k] = "select"]
               /\ dpc' = [dpc EXCEPT ![k] = "select"]
               /\ apc' = "save"
    /\ UNCHANGED <<stop, lclosed, conns, nAccepted, peer, closes, nFrames,
                   rbuf, rerr, rlog, waitConn, cbLog, smsg, qlog, wlog, dlog,
                   bcVars, shutVars>>

\* The end of Start's closure, l.saveConn(newId, myConn), and LoopAccept's Unlock.
LoopAcceptSave ==
    /\ apc = "save"
    /\ conns' = saveConn(connId[nAccepted], nAccepted)
    /\ lock' = Free
    /\ apc' = "accept"
    /\ UNCHANGED <<stop, lclosed, lastId, nAccepted, idLog, connId, peer, closes,
                   readVars, sendVars, dispVars, bcVars,
                   shutVars>>

\* ---------------------------------------------------------- Shutdown
\* main's signal goroutine: a SIGINT or SIGTERM arrives and it calls Shutdown.
SignalShutdown ==
    /\ sigpc = "wait"
    /\ sigpc' = "done"
    /\ shutWaiting' = shutWaiting + 1
    /\ UNCHANGED <<serverVars, acceptVars, peer, closes, readVars, sendVars,
                   dispVars, bcVars, noops,
                   transitions, atShut>>

\* Shutdown without "if l.stop != 0 { return }".
ShutdownNoCheck ==
    /\ shutWaiting > 0
    /\ lock = Free
    /\ shutWaiting' = shutWaiting - 1
    /\ stop' = StopShutdown
    /\ closes' = [k \in Sockets |->
                    IF k \in Registered THEN closes[k] + 1 ELSE closes[k]]
    /\ lclosed' = lclosed + 1
    /\ transitions' = transitions + 1
    /\ atShut' = {k \in Registered :
                    /\ peer[k] = "open"
                    /\ rpc[k] \in {"read", "push"}}
    /\ UNCHANGED <<lock, lastId, conns, acceptVars, peer, readVars, sendVars,
                   dispVars, bcVars, sigpc, noops>>

\* Shutdown that also fires the close signal and the close callback of every
\* registered connection it closes.
ShutdownFiresClose ==
    /\ shutWaiting > 0
    /\ lock = Free
    /\ shutWaiting' = shutWaiting - 1
    /\ IF stop # StopRunning
       THEN /\ noops' = noops + 1
            /\ UNCHANGED <<stop, closes, lclosed, transitions, atShut, waitConn,
                           cbLog>>
       ELSE /\ stop' = StopShutdown
            /\ closes' = [k \in Sockets |->
                            IF k \in Registered THEN closes[k] + 1 ELSE closes[k]]
            /\ waitConn' = [k \in Sockets |->
                              IF k \in Registered /\ waitConn[k] = 0
                              THEN 1 ELSE waitConn[k]]
            /\ cbLog' = [k \in Sockets |->
                           IF k \in Registered /\ waitConn[k] = 0
                           THEN Append(cbLog[k], <<TRUE, FALSE>>) ELSE cbLog[k]]
            /\ lclosed' = lclosed + 1
            /\ transitions' = transitions + 1
            /\ atShut' = {k \in Registered :
                            /\ peer[k] = "open"
                            /\ rpc[k] \in {"read", "push"}}
            /\ UNCHANGED noops
    /\ UNCHANGED <<lock, lastId, conns, acceptVars, peer, nFrames, rpc, rbuf,
                   rerr, rlog, sendVars, dispVars, bcVars, sigpc>>

\* Shutdown without l.lock.Lock().
ShutdownNoLock ==
    /\ shutWaiting > 0
    /\ shutWaiting' = shutWaiting - 1
    /\ IF stop # StopRunning
       THEN /\ noops' = noops + 1
            /\ UNCHANGED <<stop, closes, lclosed, transitions, atShut>>
       ELSE /\ stop' = StopShutdown
            /\ closes' = [k \in Sockets |->
                            IF k \in Registered THEN closes[k] + 1 ELSE closes[k]]
            /\ lclosed' = lclosed + 1
            /\ transitions' = transitions + 1
            /\ atShut' = {k \in Registered :
                            /\ peer[k] = "open"
                            /\ rpc[k] \in {"read", "push"}}
            /\ UNCHANGED noops
    /\ UNCHANGED <<lock, lastId, conns, acceptVars, peer, readVars, sendVars,
                   dispVars, bcVars, sigpc>>

\* Shutdown, from l.lock.Lock() to the deferred Unlock: return when stop is
\* set; otherwise set it, close every registered connection's socket and the
\* listener. Everything it touches but the sockets is touched under the lock
\* only, so the body is one step.
Shutdown ==
    /\ shutWaiting > 0
    /\ lock = Free
    /\ shutWaiting' = shutWaiting - 1
    /\ IF stop # StopRunning
       THEN /\ noops' = noops + 1
            /\ UNCHANGED <<stop, closes, lclosed, transitions, atShut>>
       ELSE /\ stop' = StopShutdown
            /\ closes' = [k \in Sockets |->
                            IF k \in Registered THEN closes[k] + 1 ELSE closes[k]]
            /\ lclosed' = lclosed + 1
            /\ transitions' = transitions + 1
            /\ atShut' = {k \in Registered :
                            /\ peer[k] = "open"
                            /\ rpc[k] \in {"read", "push"}}
            /\ UNCHANGED noops
    /\ UNCHANGED <<lock, lastId, conns, acceptVars, peer, readVars, sendVars,
                   dispVars, bcVars, sigpc>>

\* -------------------------------------------------------- the peers
\* The peer goes away, by an orderly close or by a reset. (A change of the
\* peer's end is observable only through Read and Write, so it is modelled
\* while the Reader is still reading.)
PeerClose(k) ==
    /\ peer[k] = "open"
    /\ rpc[k] \in {"read", "push"}
    /\ peer' = [peer EXCEPT ![k] = "gone"]
    /\ UNCHANGED <<serverVars, acceptVars, closes, readVars, sendVars, dispVars,
                   bcVars, shutVars>>

\* -------------------------------------------------------- the Reader
\* handelReadClose that never reaches the callback.
handelReadCloseNoCallback(k, isServer, isClient) ==
    /\ waitConn' = [waitConn EXCEPT ![k] = waitConn[k] + 1]
    /\ UNCHANGED cbLog

\* handelReadClose: close(conn.waitConn), then l.closeCallback(conn, isServer,
\* isClient).
handelReadClose(k, isServer, isClient) ==
    /\ waitConn' = [waitConn EXCEPT ![k] = waitConn[k] + 1]
    /\ cbLog' = [cbLog EXCEPT ![k] = Append(cbLog[k], <<isServer, isClient>>)]

\* LoopRead that takes the next turn of its loop after a read that succeeded
\* without sending the frame on output.
LoopReadDropping(k) ==
    /\ rpc[k] = "read"
    /\ \/ /\ closes[k] = 0
          /\ peer[k] = "open"
          /\ nFrames < MaxFrames
          /\ \E m \in Frames : rlog' = [rlog EXCEPT ![k] = Append(rlog[k], m)]
          /\ nFrames' = nFrames + 1
          /\ UNCHANGED <<rpc, rbuf, rerr, waitConn, cbLog>>
       \/ /\ closes[k] > 0 \/ peer[k] = "gone"
          /\ rerr' = [rerr EXCEPT ![k] = "OpError"]
          /\ handelReadClose(k, TRUE, FALSE)
          /\ rpc' = [rpc EXCEPT ![k] = "done"]
          /\ UNCHANGED <<nFrames, rbuf, rlog>>
    /\ UNCHANGED <<serverVars, acceptVars, peer, closes, sendVars, dispVars,
                   bcVars, shutVars>>

\* LoopRead, conn.Read returns: a frame the peer sent, which LoopRead sends on
\* output; or, the peer gone, io.EOF (orderly close) or a *net.OpError
\* (reset); or a *net.OpError after conn.Close(), whatever the peer did. On
\* either error LoopRead calls handelReadClose and returns. (The socket is a
\* TCP connection, whose Read returns no error of another kind, so the exit
\* after "log.Err(errors.Wrap(err, "read"))" is not taken.)
LoopRead(k) ==
    /\ rpc[k] = "read"
    /\ \/ /\ closes[k] = 0
          /\ peer[k] = "open"
          /\ nFrames < MaxFrames
          /\ \E m \in Frames :
                /\ rbuf' = [rbuf EXCEPT ![k] = m]
                /\ rlog' = [rlog EXCEPT ![k] = Append(rlog[k], m)]
          /\ nFrames' = nFrames + 1
          /\ rpc' = [rpc EXCEPT ![k] = "push"]
          /\ UNCHANGED <<rerr, waitConn, cbLog>>
       \/ /\ closes[k] = 0
          /\ peer[k] = "gone"
          /\ rerr' = [rerr EXCEPT ![k] = "EOF"]
          /\ handelReadClose(k, FALSE, TRUE)
          /\ rpc' = [rpc EXCEPT ![k] = "done"]
          /\ UNCHANGED <<nFrames, rbuf, rlog>>
       \/ /\ closes[k] > 0 \/ peer[k] = "gone"
          /\ rerr' = [rerr EXCEPT ![k] = "OpError"]
          /\ handelReadClose(k, TRUE, FALSE)
          /\ rpc' = [rpc EXCEPT ![k] = "done"]
          /\ UNCHANGED <<nFrames, rbuf, rlog>>
    /\ UNCHANGED <<serverVars, acceptVars, peer, closes, sendVars, dispVars,
                   bcVars, shutVars>>

\* -------------------------------------------------------- the Sender
\* ConsumeInput's select, case <-conn.waitConn: return.
ConsumeInputClosed(k) ==
    /\ spc[k] = "select"
    /\ waitConn[k] > 0
    /\ spc' = [spc EXCEPT ![k] = "done"]
    /\ UNCHANGED <<serverVars, acceptVars, peer, closes, readVars, smsg, qlog,
                   wlog, dispVars, bcVars, shutVars>>

\* ConsumeInput that writes the item it took twice.
ConsumeInputTwice(k) ==
    /\ spc[k] = "lock"
    /\ lock = Free
    /\ IF stop # StopRunning
       THEN /\ lock' = BySender(k)
            /\ UNCHANGED wlog
       ELSE \/ /\ wlog' = [wlog EXCEPT ![k] = wlog[k] \o <<smsg[k], smsg[k]>>]
               /\ lock' = Free
            \/ /\ peer[k] # "open"
               /\ lock' = BySender(k)
               /\ UNCHANGED wlog
    /\ spc' = [spc EXCEPT ![k] = "select"]
    /\ smsg' = [smsg EXCEPT ![k] = NoPayload]
    /\ UNCHANGED <<stop, lclosed, lastId, conns, acceptVars, peer, closes,
                   readVars, qlog, dispVars, bcVars, shutVars>>

\* ConsumeInput without "if l.stop != 0 { continue }".
ConsumeInputNoStopCheck(k) ==
    /\ spc[k] = "lock"
    /\ lock = Free
    /\ \/ /\ wlog' = [wlog EXCEPT ![k] = Append(wlog[k], smsg[k])]
          /\ lock' = Free
       \/ /\ peer[k] # "open" \/ closes[k] > 0
          /\ lock' = BySender(k)
          /\ UNCHANGED wlog
    /\ spc' = [spc EXCEPT ![k] = "select"]
    /\ smsg' = [smsg EXCEPT ![k] = NoPayload]
    /\ UNCHANGED <<stop, lclosed, lastId, conns, acceptVars, peer, closes,
                   readVars, qlog, dispVars, bcVars, shutVars>>

\* ConsumeInput after an item was taken from input, from l.lock.Lock() on:
\* "if l.stop != 0 { continue }"; conn.Write, which may fail once the peer is
\* gone: "continue" again; Unlock only after a write that succeeded.
ConsumeInput(k) ==
    /\ spc[k] = "lock"
    /\ lock = Free
    /\ IF stop # StopRunning
       THEN /\ lock' = BySender(k)
            /\ UNCHANGED wlog
       ELSE \/ /\ wlog' = [wlog EXCEPT ![k] = Append(wlog[k], smsg[k])]
               /\ lock' = Free
            \/ /\ peer[k] # "open"
               /\ lock' = BySender(k)
               /\ UNCHANGED wlog
    /\ spc' = [spc EXCEPT ![k] = "select"]
    /\ smsg' = [smsg EXCEPT ![k] = NoPayload]
    /\ UNCHANGED <<stop, lclosed, lastId, conns, acceptVars, peer, closes,
                   readVars, qlog, dispVars, bcVars, shutVars>>

\* The receiving half of "v.input <- bt": ConsumeInput's select takes the item.
TakeInput(t, v) ==
    /\ spc[t] = "select"
    /\ spc' = [spc EXCEPT ![t] = "lock"]
    /\ smsg' = [smsg EXCEPT ![t] = v]
    /\ qlog' = [qlog EXCEPT ![t] = Append(qlog[t], v)]

\* ---------------------------------------------------------- the router
\* The route table built by init(): the handler, and whether the route has a
\* request prototype (Info).
routes ==
    [a \in {DefaultAct, ShutdownAct} |->
        IF a = DefaultAct THEN [Handle |-> "handleDefault", Info |-> FALSE]
                          ELSE [Handle |-> "handleShutdown", Info |-> TRUE]]

\* msg.ToStruct(hv.Info) of the codec: whether the payload decodes.
ToStruct(m) == m.ok

\* OnReceive that returns on an unknown action code instead of taking route 0.
OnReceiveNoFallback(m) ==
    IF m.act \notin DOMAIN routes THEN <<>>
    ELSE IF routes[m.act].Info /\ ~ToStruct(m) THEN <<>>
         ELSE <<routes[m.act].Handle>>

\* OnReceive that goes on to the handler after ToStruct failed.
OnReceiveIgnoreError(m) ==
    LET hv == IF m.act \in DOMAIN routes THEN routes[m.act] ELSE routes[DefaultAct]
    IN <<hv.Handle>>

\* The OnReceive callback of main: the handlers it invokes for frame m, in order.
OnReceive(m) ==
    LET hv == IF m.act \in DOMAIN routes THEN routes[m.act] ELSE routes[DefaultAct]
    IN IF hv.Info /\ ~ToStruct(m) THEN <<>> ELSE <<hv.Handle>>

Handlers(calls) == {calls[i] : i \in DOMAIN calls}

\* ------------------------------------------------------ the Dispatcher
\* ConsumeOutput's select, case <-conn.waitConn: return.
ConsumeOutputClosed(k) ==
    /\ dpc[k] = "select"
    /\ waitConn[k] > 0
    /\ dpc' = [dpc EXCEPT ![k] = "done"]
    /\ UNCHANGED <<serverVars, acceptVars, peer, closes, readVars, sendVars,
                   dlog, bcVars, shutVars>>

\* Broadcast's Range over the sockets P it has still to visit, in an order
\* sync.Map does not fix: it starts "v.input <- bt" on one of them, or, none
\* left, returns into handleShutdown, whose time.AfterFunc then arms the
\* Shutdown call.
BroadcastNext(k, P) ==
    IF P = {}
    THEN /\ bcTarget' = [bcTarget EXCEPT ![k] = NoSocket]
         /\ bcPending' = [bcPending EXCEPT ![k] = {}]
         /\ bcMsg' = [bcMsg EXCEPT ![k] = NoPayload]
         /\ dpc' = [dpc EXCEPT ![k] = "select"]
         /\ shutWaiting' = shutWaiting + 1
    ELSE /\ \E t \in P :
              /\ bcTarget' = [bcTarget EXCEPT ![k] = t]
              /\ bcPending' = [bcPending EXCEPT ![k] = P \ {t}]
         /\ bcMsg' = [bcMsg EXCEPT ![k] =
                       IF bcMsg[k] = NoPayload THEN <<k, Len(dlog[k]) + 1>>
                                               ELSE bcMsg[k]]
         /\ dpc' = [dpc EXCEPT ![k] = "bcast"]
         /\ UNCHANGED shutWaiting

\* ConsumeOutput's select, case msg := <-conn.output, meeting LoopRead's
\* "conn.output <- bt", after which LoopRead is back at its select; then
\* handelReceive: the receive callback routes the
\* frame and runs the handler. handleDefault only prints. handleShutdown
\* encodes the notice (FromStruct of the codec, which may fail: return) and
\* calls server.Broadcast with it.
ConsumeOutput(k) ==
    /\ dpc[k] = "select"
    /\ rpc[k] = "push"
    /\ rbuf' = [rbuf EXCEPT ![k] = NoFrame]
    /\ rpc' = [rpc EXCEPT ![k] = LoopReadSelect(k)]
    /\ LET calls == OnReceive(rbuf[k])
       IN /\ dlog' = [dlog EXCEPT ![k] =
                        Append(dlog[k], [frame |-> rbuf[k], calls |-> calls])]
          /\ IF "handleShutdown" \in Handlers(calls)
             THEN \E enc \in BOOLEAN :
                    IF enc
                    THEN BroadcastNext(k, Registered)
                    ELSE /\ dpc' = [dpc EXCEPT ![k] = "select"]
                         /\ UNCHANGED <<bcVars, shutWaiting>>
             ELSE /\ dpc' = [dpc EXCEPT ![k] = "select"]
                  /\ UNCHANGED <<bcVars, shutWaiting>>
    /\ UNCHANGED <<serverVars, acceptVars, peer, closes, nFrames, rerr, rlog,
                   waitConn, cbLog, sendVars, sigpc, noops,
                   transitions, atShut>>

\* Broadcast, "v.input <- bt" completes: the target's Sender takes the item,
\* and Range goes on.
Broadcast(k) ==
    /\ dpc[k] = "bcast"
    /\ TakeInput(bcTarget[k], bcMsg[k])
    /\ BroadcastNext(k, bcPending[k])
    /\ UNCHANGED <<serverVars, acceptVars, peer, closes, readVars, wlog,
                   dlog, sigpc, noops, transitions,
                   atShut>>

\* ------------------------------------------------------ specification
Next ==
    \/ LoopAcceptAccept
    \/ LoopAcceptError
    \/ LoopAccept
    \/ LoopAcceptSave
    \/ SignalShutdown
    \/ Shutdown
    \/ \E k \in Sockets :
         \/ PeerClose(k)
         \/ LoopRead(k)
         \/ ConsumeInputClosed(k)
         \/ ConsumeInput(k)
         \/ ConsumeOutputClosed(k)
         \/ ConsumeOutput(k)
         \/ Broadcast(k)

Spec == Init /\ [][Next]_vars

\* ------------------------------------------------------------- claims
\* Shutdown has been called (by the signal goroutine or by a timer that
\* handleShutdown armed).
ShutdownCalled == sigpc = "done" \/ shutWaiting > 0 \/ transitions > 0 \/ noops > 0

Terminated(pc) == pc \in {"none", "done"}

\* Every goroutine the wait group of Start counts has returned.
AllTasksDone ==
    /\ apc = "done"
    /\ \A k \in Sockets : Terminated(rpc[k]) /\ Terminated(spc[k]) /\ Terminated(dpc[k])

\* No goroutine can take a step and the environment has nothing left to do.
Quiescent == ~ENABLED Next

\* The socket's connection is open on both ends and its close signal has not fired.
Alive(k) == peer[k] = "open" /\ closes[k] = 0 /\ waitConn[k] = 0

\* C1: once Shutdown has been called, the acceptor and every connection's
\* Reader, Sender and Dispatcher terminate: when the server has come to rest
\* after a Shutdown call, no task is left running.
C1_ShutdownTerminates == (ShutdownCalled /\ Quiescent) => AllTasksDone

\* C2: for every connection the close signal is closed at most once and the
\* close callback is invoked at most once.
C2_CloseOnce == \A k \in Sockets : waitConn[k] <= 1 /\ Len(cbLog[k]) <= 1

\* A connection whose peer went away and whose socket Shutdown closed as well
\* has fired its close signal and run its callback.
C2_Witness ==
    \E k \in Sockets :
        /\ peer[k] = "gone" /\ closes[k] = 1
        /\ waitConn[k] = 1 /\ Len(cbLog[k]) = 1

\* C3: every connection registered and not yet closed when Shutdown performs
\* its transition gets its close callback invoked with isServer = TRUE: when
\* the server has come to rest after the transition, each such connection's
\* callback has run with that flag.
C3_ShutdownCallback ==
    (transitions > 0 /\ Quiescent) =>
        \A k \in atShut : \E i \in DOMAIN cbLog[k] : cbLog[k][i][1]

\* C4: when the Reader of a connection sees end-of-stream, the close signal is
\* fired and the close callback is invoked with isServer = FALSE, isClient = TRUE.
C4_PeerCloseCallback ==
    \A k \in Sockets :
        rerr[k] = "EOF" => waitConn[k] >= 1 /\ cbLog[k] = << <<FALSE, TRUE>> >>

\* The peer of a connection closed while the server was running, and still is.
C4_Witness ==
    \E k \in Sockets :
        /\ rerr[k] = "EOF" /\ stop = StopRunning
        /\ cbLog[k] = << <<FALSE, TRUE>> >>

\* C5: a Broadcast that targets a registered connection whose close signal has
\* fired and whose Sender has returned is not left blocked on that
\* connection's input for ever.
C5_SendReturns ==
    \A k \in Sockets :
        ~(/\ dpc[k] = "bcast"
          /\ waitConn[bcTarget[k]] > 0
          /\ spc[bcTarget[k]] = "done")

\* C6: a Broadcast called while the server is running delivers to every
\* connection alive at call time, whatever the other connections' Senders do:
\* it is never stuck for ever on a connection whose Sender has returned while
\* a connection that is still alive, and the server still running, waits for
\* its turn.
C6_BroadcastDelivers ==
    \A k \in Sockets :
        ~(/\ dpc[k] = "bcast"
          /\ stop = StopRunning
          /\ spc[bcTarget[k]] = "done"
          /\ \E c \in bcPending[k] : Alive(c) /\ bcMsg[k] \notin Handlers(wlog[c]))

C8_IdsIncreasing ==
    /\ idLog # <<>> => idLog[1] = 1
    /\ \A i, j \in DOMAIN idLog : i < j => idLog[i] < idLog[j]

\* A second id was handed out after the first connection had closed.
C8_Witness == Len(idLog) >= 2 /\ rpc[1] = "done" /\ connId[2] # connId[1]

\* The handler the route table has for a frame's action code: the registered
\* one, otherwise that of route 0.
Registered100(f) == f.act = ShutdownAct

DecodeFails(f) == Registered100(f) /\ ~f.ok

FramesOf(log) == [i \in DOMAIN log |-> log[i].frame]

\* The frame the Reader is sending on output, if any.
InFlight(k) == IF rpc[k] = "push" THEN <<rbuf[k]>> ELSE <<>>

RECURSIVE IsSubSeq(_, _)
IsSubSeq(w, q) ==
    IF w = <<>> THEN TRUE
    ELSE IF q = <<>> THEN FALSE
    ELSE IF Head(w) = Head(q) THEN IsSubSeq(Tail(w), Tail(q))
    ELSE IsSubSeq(w, Tail(q))

\* C12: within a connection, the payloads written to the socket are payloads
\* queued on input, in the order they were queued, each written at most once
\* (some may be left out: dropped, or not written yet).
C12_OutboundFifo ==
    \A k \in Sockets : IsSubSeq(wlog[k], qlog[k])

\* Two payloads of two Broadcast calls were queued on a connection and both
\* written.
C12_Witness ==
    \E k \in Sockets :
        /\ Len(qlog[k]) = 2 /\ qlog[k][1] # qlog[k][2]
        /\ wlog[k] = qlog[k]

\* C13: the Sender releases the lock on every exit path of handling one
\* item: it is never back at its select, nor returned, holding the lock.
C13_SenderReleasesLock ==
    \A k \in Sockets : spc[k] \in {"select", "done"} => lock # BySender(k)

\* C14: the Acceptor holds the lock neither while it is blocked in Accept nor
\* after it has returned.
C14_AcceptorReleasesLock ==
    apc \in {"accept", "done"} => lock # ByAcceptor

\* C15: once Shutdown has performed the transition, no step writes a payload
\* to any connection's socket.
C15_NoWriteAfterShutdown ==
    [][stop # StopRunning => wlog' = wlog]_vars

\* After the transition a Sender locked for a payload that was queued on its
\* connection, found stop set and dropped it: the write log does not have it.
C15_Witness ==
    \E k \in Sockets :
        /\ stop # StopRunning /\ lock = BySender(k)
        /\ spc[k] = "select"
        /\ qlog[k] # <<>> /\ qlog[k][Len(qlog[k])] \notin Handlers(wlog[k])

\* C16: once a connection's close signal has fired, no step reads from or
\* writes to that connection's socket.
C16_NoIoAfterClose ==
    [][\A k \in Sockets :
          waitConn[k] > 0 =>
              /\ wlog'[k] = wlog[k]
              /\ rlog'[k] = rlog[k] /\ rerr'[k] = rerr[k]]_vars

\* C17: the close callback is invoked with isServer = TRUE only for a
\* connection whose socket the server has closed, that is only after Shutdown
\* has performed its transition.
C17_ServerFlagOnlyAfterShutdown ==
    \A k \in Sockets : \A i \in DOMAIN cbLog[k] :
        cbLog[k][i][1] => closes[k] > 0 /\ transitions > 0

\* C18: a connection whose close signal has fired and whose three tasks have
\* returned has had its socket closed by the server, once.
C18_SocketClosedOnce ==
    \A k \in Sockets :
        /\ closes[k] <= 1
        /\ (/\ waitConn[k] > 0
            /\ rpc[k] = "done" /\ spc[k] = "done" /\ dpc[k] = "done") => closes[k] = 1

\* The sockets whose Reader, Sender and Dispatcher have been launched.
Launched == {k \in Sockets : rpc[k] # "none"}

\* C19: creating a connection is atomic with respect to Shutdown: the step
\* that performs the transition finds every launched connection in the
\* registry, and no step after it launches a connection or changes the
\* registry.
C19_AcceptAtomic ==
    [][/\ (stop = StopRunning /\ stop' # StopRunning) => Launched \subseteq Registered
       /\ stop # StopRunning => conns' = conns /\ Launched' = Launched]_vars

\* The transition happened with a connection registered, and a socket that
\* Accept returned around it was turned away: nothing was launched for it.
C19_Witness ==
    /\ stop # StopRunning /\ lock = ByAcceptor
    /\ Registered # {} /\ Launched = Registered
    /\ nAccepted > Cardinality(Launched)

\* C20: a Reader returns only after the close signal has fired, and the
\* Sender and the Dispatcher of its connection then observe the signal and
\* return: when the server has come to rest, no Sender or Dispatcher of a
\* connection whose Reader has returned is still waiting.
C20_ReaderExitReleasesTasks ==
    \A k \in Sockets :
        /\ rpc[k] = "done" => waitConn[k] > 0
        /\ (rpc[k] = "done" /\ Quiescent) => spc[k] = "done" /\ dpc[k] = "done"

====
